---- MODULE Spec2Model ----
(***************************************************************************)
(* Model of src/ai_virtual_mouse.py: the frame loop of the virtual mouse   *)
(* and the five functions it calls for every detected hand                 *)
(* (move_mouse_smooth, detect_click, toggle_drag, scroll, hover_click).    *)
(*                                                                         *)
(* Units.  Landmark coordinates are integers in hundredths of the          *)
(* normalized range (50 is 0.5).  The clock counts ticks; one second is    *)
(* TicksPerSecond ticks.  Python's None is the empty tuple << >>, a value  *)
(* v that is not None is the tuple holding it.                             *)
(***************************************************************************)
EXTENDS Integers, Sequences, FiniteSets, TLC

\* ------------------------------------------------------------------ bounds
MaxFrames == 3          \* frames read before the camera stops delivering
MaxTime == 4            \* last clock tick
MaxDt == 2              \* ticks that may pass while a frame is read
TicksPerSecond == 1     \* clock resolution

\* --------------------------------------------------------- program constants
screen_width == 4       \* pyautogui.size()[0], line 25
screen_height == 2      \* pyautogui.size()[1], line 25
PINCH_THRESHOLD == 5    \* 0.05, lines 60 and 68
SCROLL_STEP == 10       \* lines 83 and 85
HOVER_SECONDS == 1      \* line 94

\* The hands MediaPipe can report in one frame (Hands() tracks at most two).
HandIds == {1, 2}

\* ------------------------------------------------------------------ inputs
IndexTips == {<<50, 50>>, <<100, 100>>}
\* <<thumb tip relative to the index tip, middle tip y relative to the index tip
\* y>>: the thumb pinched (0.03 away) or open (exactly 0.05 away), the middle
\* tip level with, below or above the index tip.  scroll reads only the two y,
\* and changes no state, so its sign is not crossed with every thumb offset.
Postures ==
    {<<<<3, 0>>, 0>>, <<<<3, 0>>, 10>>, <<<<3, 4>>, -10>>, <<<<3, 4>>, 0>>}

\* A hand's landmarks: landmark[4], landmark[8] and landmark[12].
Landmarks ==
    {[thumb |-> <<i[1] + p[1][1], i[2] + p[1][2]>>,
      index |-> i,
      middle |-> <<i[1], i[2] + p[2]>>] :
        i \in IndexTips, p \in Postures}

\* The hand whose history the properties follow; the hands are interchangeable.
Followed == CHOOSE h \in HandIds : \A g \in HandIds : h <= g

\* The orders in which a frame can list the detected hands.
HandLists == {<< >>, <<1>>, <<2>>, <<1, 2>>, <<2, 1>>}

\* --------------------------------------------------------------- functions
\* int(): truncation toward zero of n / d, d > 0.
Trunc(n, d) == IF n >= 0 THEN n \div d ELSE -((-n) \div d)

\* A pointer event handed to pyautogui, tagged with the hand and the function
\* that emitted it.
Ev(h, kind, by, arg) == [hand |-> h, kind |-> kind, by |-> by, arg |-> arg]

\* The square of calculate_distance, in hundredths squared.
calculate_distance_sq(p1, p2) ==
    (p1[1] - p2[1]) * (p1[1] - p2[1]) + (p1[2] - p2[2]) * (p1[2] - p2[2])

\* calculate_distance(thumb_tip, index_tip) < 0.05
PinchActive(lm) ==
    calculate_distance_sq(lm.thumb, lm.index) < PINCH_THRESHOLD * PINCH_THRESHOLD

\* The pairs (m, p), 0 <= m, p < 40, for which the double m * 0.7 + p * 0.3 is
\* just below the integer (7m + 3p) / 10, so that int() yields one less.
FloatShort ==
    {<<1, 31>>, <<3, 3>>, <<6, 6>>, <<6, 36>>, <<11, 1>>, <<12, 2>>, <<12, 12>>,
     <<12, 22>>, <<14, 4>>, <<17, 7>>, <<19, 9>>, <<22, 2>>, <<23, 3>>, <<23, 13>>,
     <<23, 23>>, <<24, 4>>, <<24, 14>>, <<24, 24>>, <<24, 34>>, <<28, 8>>,
     <<28, 18>>, <<29, 9>>, <<29, 19>>, <<29, 29>>, <<29, 39>>, <<33, 3>>,
     <<33, 13>>, <<33, 23>>, <<34, 4>>, <<34, 14>>, <<34, 24>>, <<38, 8>>,
     <<38, 18>>, <<39, 9>>}

\* int((m * 0.7) + (p * 0.3)) in double arithmetic
Smooth(m, p) ==
    IF <<m, p>> \in FloatShort THEN Trunc(7 * m + 3 * p, 10) - 1
    ELSE Trunc(7 * m + 3 * p, 10)

\* The position move_mouse_smooth moves to and returns; sensitivity is 1.5.
move_mouse_smooth(lm, prev) ==
    LET mouse_x == Trunc(lm.index[1] * screen_width * 3, 200)
        mouse_y == Trunc(lm.index[2] * screen_height * 3, 200)
    IN  IF prev # << >>
        THEN <<Smooth(mouse_x, prev[1]), Smooth(mouse_y, prev[2])>>
        ELSE <<mouse_x, mouse_y>>

detect_click(lm, h) ==
    IF PinchActive(lm) THEN <<Ev(h, "Click", "detect_click", << >>)>> ELSE << >>

\* toggle_drag without its release branch: every pinch presses the button.
toggle_drag_press_only(lm, drag, h) ==
    IF PinchActive(lm)
    THEN [dragging |-> TRUE,
          events |-> <<Ev(h, "MouseDown", "toggle_drag", << >>)>>]
    ELSE [dragging |-> drag, events |-> << >>]

toggle_drag(lm, drag, h) ==
    IF PinchActive(lm)
    THEN IF ~drag
         THEN [dragging |-> TRUE,
               events |-> <<Ev(h, "MouseDown", "toggle_drag", << >>)>>]
         ELSE [dragging |-> FALSE,
               events |-> <<Ev(h, "MouseUp", "toggle_drag", << >>)>>]
    ELSE [dragging |-> drag, events |-> << >>]

\* scroll that also scrolls down when the two tips are level.
scroll_on_level(lm, h) ==
    IF lm.index[2] < lm.middle[2]
    THEN <<Ev(h, "Scroll", "scroll", <<SCROLL_STEP>>)>>
    ELSE <<Ev(h, "Scroll", "scroll", <<-SCROLL_STEP>>)>>

scroll(lm, h) ==
    IF lm.index[2] < lm.middle[2]
    THEN <<Ev(h, "Scroll", "scroll", <<SCROLL_STEP>>)>>
    ELSE IF lm.index[2] > lm.middle[2]
         THEN <<Ev(h, "Scroll", "scroll", <<-SCROLL_STEP>>)>>
         ELSE << >>

\* The hover duration in clock ticks.
HoverTicks == HOVER_SECONDS * TicksPerSecond

\* hover_click that keeps the timer running after it has fired.
hover_click_no_reset(lm, hst, t, h) ==
    IF hst = << >>
    THEN [hover_start_time |-> <<t>>, events |-> << >>]
    ELSE IF t - hst[1] > HoverTicks
         THEN [hover_start_time |-> hst,
               events |-> <<Ev(h, "Click", "hover_click", << >>)>>]
         ELSE [hover_start_time |-> hst, events |-> << >>]

\* hover_click that compares with >= instead of >.
hover_click_at_least(lm, hst, t, h) ==
    IF hst = << >>
    THEN [hover_start_time |-> <<t>>, events |-> << >>]
    ELSE IF t - hst[1] >= HoverTicks
         THEN [hover_start_time |-> << >>,
               events |-> <<Ev(h, "Click", "hover_click", << >>)>>]
         ELSE [hover_start_time |-> hst, events |-> << >>]

\* hover_click at clock reading t; current_position is computed and never read.
\* A stored reading is never falsy (time.time() is never 0.0; tick 0 is the
\* program's start), so "not hover_start_time" is "hover_start_time is None".
hover_click(lm, hst, t, h) ==
    IF hst = << >>
    THEN [hover_start_time |-> <<t>>, events |-> << >>]
    ELSE IF t - hst[1] > HoverTicks
         THEN [hover_start_time |-> << >>,
               events |-> <<Ev(h, "Click", "hover_click", << >>)>>]
         ELSE [hover_start_time |-> hst, events |-> << >>]

\* One iteration of the loop over the detected hands (lines 121-133), from the
\* module-level state g, for hand h with landmarks lm, the clock reading t.
loop_body(g, lm, h, t) ==
    LET pos == move_mouse_smooth(lm, g.previous_position)
        drg == toggle_drag(lm, g.dragging, h)
        hov == hover_click(lm, g.hover_start_time, t, h)
    IN  [g |-> [previous_position |-> pos,
                dragging |-> drg.dragging,
                hover_start_time |-> hov.hover_start_time],
         events |-> <<Ev(h, "Move", "move_mouse_smooth", pos)>>
                    \o detect_click(lm, h) \o drg.events
                    \o scroll(lm, h) \o hov.events]

\* Point counts of a landmark list shorter than the 21 MediaPipe delivers: 8
\* stands for the lists without landmark[8], 12 for those with landmark[8] and
\* without landmark[12].  (From 13 points on, the five functions find every index
\* they read; what draw_landmarks then does is MediaPipe's code, not this file's.)
ShortCounts == {8, 12}

\* One iteration of the loop for a hand with n points, n in ShortCounts.  lm
\* gives the points that exist.  landmark[i] with i >= n raises IndexError, and
\* nothing catches it: with 8 points at line 43, before anything is emitted,
\* with 12 points at line 81, after move_mouse_smooth, detect_click and
\* toggle_drag have run and lines 123 and 127 have stored their results.
loop_body_short(g, lm, n, h, t) ==
    IF n <= 8
    THEN [g |-> g, events |-> << >>, raised |-> "IndexError"]
    ELSE LET pos == move_mouse_smooth(lm, g.previous_position)
             drg == toggle_drag(lm, g.dragging, h)
         IN  [g |-> [previous_position |-> pos,
                     dragging |-> drg.dragging,
                     hover_start_time |-> g.hover_start_time],
              events |-> <<Ev(h, "Move", "move_mouse_smooth", pos)>>
                         \o detect_click(lm, h) \o drg.events,
              raised |-> "IndexError"]

\* ------------------------------------------------------------------- state
VARIABLES
    pc,                 \* "read": line 110; "hands": lines 120-137; "done": line 140;
                        \* "crashed": ended by an exception nothing caught
    frame_no,           \* frames read so far
    now,                \* the clock, time.time(), in ticks since the program started
    pending,            \* hands of the current frame still to be processed
    hover_start_time,   \* line 29
    previous_position,  \* line 30
    dragging,           \* line 31
    events,             \* pointer events the latest iteration of the hand loop emitted
    \* history, read by the properties only
    drag_log,           \* every MouseDown / MouseUp emitted so far, in order
    hover_clicks,       \* the clock reading of every hover click so far, in order
    status_cur,         \* the followed hand in the current frame: "absent" until
                        \* it is processed, then "pinch" or "open"
    status_last,        \* the followed hand in the previous frame
    hover_anchor,       \* the followed hand's index tip when its call started the
                        \* timer that is running or has just fired
    hover_moved,        \* the followed hand has since been farther from the anchor
                        \* than the stability tolerance
    seen_earlier        \* the followed hand was processed in some earlier frame

vars == <<pc, frame_no, now, pending, hover_start_time, previous_position,
          dragging, events, drag_log, hover_clicks, status_cur, status_last,
          hover_anchor, hover_moved, seen_earlier>>

hist == <<drag_log, hover_clicks, status_cur, status_last, hover_anchor,
          hover_moved, seen_earlier>>

globals == [previous_position |-> previous_position,
            dragging |-> dragging,
            hover_start_time |-> hover_start_time]

Init ==
    /\ pc = "read"
    /\ frame_no = 0
    /\ now = 0
    /\ pending = << >>
    /\ hover_start_time = << >>
    /\ previous_position = << >>
    /\ dragging = FALSE
    /\ events = << >>
    /\ drag_log = << >>
    /\ hover_clicks = << >>
    /\ status_cur = "absent"
    /\ status_last = "absent"
    /\ hover_anchor = << >>
    /\ hover_moved = FALSE
    /\ seen_earlier = FALSE

\* ----------------------------------------------------------------- actions
\* cap.read() delivers a frame and hands.process() reports its hands (110-120).
ReadFrame ==
    /\ pc = "read"
    /\ frame_no < MaxFrames
    /\ \E dt \in 0..MaxDt, hs \in HandLists :
        /\ now + dt <= MaxTime
        /\ now' = now + dt
        /\ pending' = hs
    /\ pc' = "hands"
    /\ frame_no' = frame_no + 1
    /\ UNCHANGED <<hover_start_time, previous_position, dragging, events>>
    /\ UNCHANGED hist

\* cap.read() fails: break (lines 111-112), then release (line 140).
ReadFail ==
    /\ pc = "read"
    /\ pc' = "done"
    /\ UNCHANGED <<frame_no, now, pending, hover_start_time, previous_position,
                   dragging, events>>
    /\ UNCHANGED hist

\* The index tip is farther than the stability tolerance (0.01) from q.
BeyondTolerance(p, q) == calculate_distance_sq(p, q) > 1

\* The kinds of the events of evs that function by emitted, in order.
Kinds(evs, by) ==
    LET own == SelectSeq(evs, LAMBDA e : e.by = by)
    IN  [i \in 1..Len(own) |-> own[i].kind]

\* One iteration of the for loop (lines 121-133) for the next hand.
ProcessHand ==
    /\ pc = "hands"
    /\ pending # << >>
    /\ \E lm \in Landmarks :
        LET h == Head(pending)
            t == now
            r == loop_body(globals, lm, h, t)
            fired == \E i \in 1..Len(r.events) : r.events[i].by = "hover_click"
        IN  /\ now' = now
            /\ previous_position' = r.g.previous_position
            /\ dragging' = r.g.dragging
            /\ hover_start_time' = r.g.hover_start_time
            /\ events' = r.events
            /\ drag_log' = drag_log \o Kinds(r.events, "toggle_drag")
            /\ hover_clicks' = IF fired THEN Append(hover_clicks, t)
                               ELSE hover_clicks
            /\ status_cur' = IF h # Followed THEN status_cur
                              ELSE IF PinchActive(lm) THEN "pinch" ELSE "open"
            /\ IF hover_start_time = << >>
               THEN /\ hover_anchor' = IF h = Followed THEN <<lm.index>> ELSE << >>
                    /\ hover_moved' = FALSE
               ELSE /\ hover_anchor' = hover_anchor
                    /\ hover_moved' =
                           (hover_moved \/ (/\ h = Followed
                                            /\ hover_anchor # << >>
                                            /\ BeyondTolerance(lm.index, hover_anchor[1])))
    /\ pending' = Tail(pending)
    /\ UNCHANGED <<pc, frame_no, status_last, seen_earlier>>

\* One iteration of the for loop for a hand whose landmark list is short: the
\* IndexError propagates out of the while loop and ends the program; the hands
\* still pending are never processed, lines 140-141 never run.
ProcessShortHand ==
    /\ pc = "hands"
    /\ pending # << >>
    /\ \E lm \in Landmarks, n \in ShortCounts :
        LET r == loop_body_short(globals, lm, n, Head(pending), now)
        IN  /\ previous_position' = r.g.previous_position
            /\ dragging' = r.g.dragging
            /\ hover_start_time' = r.g.hover_start_time
            /\ events' = r.events
            /\ drag_log' = drag_log \o Kinds(r.events, "toggle_drag")
            /\ pc' = IF r.raised = "IndexError" THEN "crashed" ELSE pc
    /\ UNCHANGED <<frame_no, now, pending, hover_clicks, status_cur, status_last,
                   hover_anchor, hover_moved, seen_earlier>>

\* KeyContinue that tears the hover timer down at the end of a frame without hands.
KeyContinue_teardown ==
    /\ pc = "hands"
    /\ pending = << >>
    /\ pc' = "read"
    /\ events' = << >>
    /\ status_last' = status_cur
    /\ status_cur' = "absent"
    /\ seen_earlier' = (seen_earlier \/ status_cur # "absent")
    /\ hover_start_time' = IF events = << >> THEN << >> ELSE hover_start_time
    /\ UNCHANGED <<frame_no, now, pending, previous_position, dragging, drag_log,
                   hover_clicks, hover_anchor, hover_moved>>

\* imshow, then waitKey returns a key other than 'q' (lines 136-137): the frame
\* is over, and what it saw becomes the previous frame's.
KeyContinue ==
    /\ pc = "hands"
    /\ pending = << >>
    /\ pc' = "read"
    /\ events' = << >>
    /\ status_last' = status_cur
    /\ status_cur' = "absent"
    /\ seen_earlier' = (seen_earlier \/ status_cur # "absent")
    /\ UNCHANGED <<frame_no, now, pending, hover_start_time, previous_position,
                   dragging, drag_log, hover_clicks, hover_anchor, hover_moved>>

\* waitKey returns 'q': break (line 138), then release (line 140).
KeyQuit ==
    /\ pc = "hands"
    /\ pending = << >>
    /\ pc' = "done"
    /\ events' = << >>
    /\ status_last' = status_cur
    /\ status_cur' = "absent"
    /\ seen_earlier' = (seen_earlier \/ status_cur # "absent")
    /\ UNCHANGED <<frame_no, now, pending, hover_start_time, previous_position,
                   dragging, drag_log, hover_clicks, hover_anchor, hover_moved>>

Next == ReadFrame \/ ReadFail \/ ProcessHand \/ KeyContinue \/ KeyQuit

Spec == Init /\ [][Next]_vars

\* The program fed by a tracker that may also deliver short landmark lists.
NextAnyHands ==
    ReadFrame \/ ReadFail \/ ProcessHand \/ ProcessShortHand \/ KeyContinue \/ KeyQuit

SpecAnyHands == Init /\ [][NextAnyHands]_vars

\* ------------------------------------------------------------- properties
\* The latest iteration emitted an event of this kind, by this function, for h.
Emitted(h, kind, by) ==
    \E i \in 1..Len(events) :
        events[i].hand = h /\ events[i].kind = kind /\ events[i].by = by

\* Every hand of the current frame has been processed.
FrameDone == pc = "hands" /\ pending = << >>

\* The followed hand has just been processed.
FollowedJustProcessed == events # << >> /\ events[1].hand = Followed

\* pinch_just_closed for the followed hand: pinching now, not in its previous frame.
PinchJustClosed == status_cur = "pinch" /\ status_last # "pinch"

\* C1: a pinch Click is emitted for a hand only on a frame where pinch_active is
\* true and was false on that hand's previous frame.
C1_PinchClickOnlyOnEdge ==
    Emitted(Followed, "Click", "detect_click") => PinchJustClosed

\* C2: MouseDown / MouseUp is emitted for a hand, and the drag state changes,
\* only on a frame where its pinch has just closed.
C2_DragChangesOnlyOnEdge ==
    (Emitted(Followed, "MouseDown", "toggle_drag")
        \/ Emitted(Followed, "MouseUp", "toggle_drag")) => PinchJustClosed

\* C3: no frame emits a pinch Click together with a MouseDown or MouseUp for the
\* same hand.
C3_NoClickWithDragTransition ==
    \A h \in HandIds :
        ~(/\ Emitted(h, "Click", "detect_click")
          /\ (Emitted(h, "MouseDown", "toggle_drag")
                \/ Emitted(h, "MouseUp", "toggle_drag")))

\* C4: MouseDown and MouseUp strictly alternate, starting with MouseDown, and
\* is_dragging is true exactly when one more MouseDown than MouseUp has been
\* emitted (so MouseDown is only emitted while released, MouseUp while dragging).
C4_DragAlternation ==
    LET downs == Len(SelectSeq(drag_log, LAMBDA k : k = "MouseDown"))
        ups == Len(SelectSeq(drag_log, LAMBDA k : k = "MouseUp"))
    IN  /\ \A i \in 1..Len(drag_log) :
              drag_log[i] = IF i % 2 = 1 THEN "MouseDown" ELSE "MouseUp"
        /\ dragging <=> (downs = ups + 1)
        /\ ~dragging <=> (downs = ups)

\* C4, witness: three drag toggles have yielded MouseDown, MouseUp, MouseDown,
\* ending in Dragging.
C4_ThreeToggles ==
    drag_log = <<"MouseDown", "MouseUp", "MouseDown">> /\ dragging

\* C5: when the hand of the previous frame is no longer reported while a drag is
\* in progress, the frame emits a MouseUp and resets the drag state.
C5_DroppedHandReleasesDrag ==
    (FrameDone /\ events = << >> /\ status_last # "absent") =>
        (~dragging /\ (drag_log = << >> \/ drag_log[Len(drag_log)] = "MouseUp"))

\* C6: the program never terminates with more MouseDown than MouseUp emitted.
C6_NoDragAtTermination ==
    pc = "done" =>
        (~dragging /\ Len(SelectSeq(drag_log, LAMBDA k : k = "MouseDown"))
                        = Len(SelectSeq(drag_log, LAMBDA k : k = "MouseUp")))

\* C7: a hover Click is emitted only if the index fingertip has stayed within the
\* stability tolerance of the anchor since the timer was started.
C7_HoverClickOnlyIfStable ==
    (Emitted(Followed, "Click", "hover_click") /\ hover_anchor # << >>) =>
        ~hover_moved

TimerRunningAtCall == pc = "hands" /\ pending # << >> /\ hover_start_time # << >>

EventsOf(evs, h) == SelectSeq(evs, LAMBDA e : e.hand = h)

\* C10: the events emitted for a hand and the resulting state do not depend on
\* the order in which the hands of a frame are processed.
C10_HandOrderUnobservable ==
    pc = "read" =>
        \A a \in Landmarks, b \in Landmarks :
            LET h1 == Followed
                h2 == CHOOSE h \in HandIds : h # Followed
                a1 == loop_body(globals, a, h1, now)
                b2 == loop_body(a1.g, b, h2, now)
                b1 == loop_body(globals, b, h2, now)
                a2 == loop_body(b1.g, a, h1, now)
            IN  /\ a1.events = a2.events
                /\ b1.events = b2.events
                /\ b2.g = a2.g
\* The followed hand is about to be processed again after a gap: it was seen in
\* an earlier frame and was not reported in the previous one.
ReappearsAfterGap ==
    /\ pc = "hands"
    /\ pending # << >>
    /\ Head(pending) = Followed
    /\ status_last = "absent"
    /\ seen_earlier

\* C11: a hand that reappears after a gap behaves as newly observed: its first
\* Move is the raw target, not smoothed against a position from before the gap,
\* and the call at which it reappears emits no hover Click (no hover duration
\* has passed since it reappeared).
C11_GapResetsHandState ==
    ReappearsAfterGap =>
        \A lm \in Landmarks :
            LET r == loop_body(globals, lm, Followed, now)
            IN  /\ r.events[1].kind = "Move"
                /\ r.events[1].arg = move_mouse_smooth(lm, << >>)
                /\ \A i \in 1..Len(r.events) : r.events[i].by # "hover_click"

\* C12: within a frame the events are ordered Move, then Click / MouseDown /
\* MouseUp (the hover Click included), then Scroll: among the events one hand's
\* processing adds to the frame, no Move follows another event and no Click,
\* MouseDown or MouseUp follows a Scroll.
C12_MoveThenButtonsThenScroll ==
    \A i \in 1..Len(events), j \in 1..Len(events) :
        i < j =>
            /\ events[j].kind # "Move"
            /\ events[i].kind = "Scroll" =>
                   events[j].kind \notin {"Click", "MouseDown", "MouseUp"}

\* C13: every position a Move passes to the pointer sink lies on the screen:
\* 0 <= x < screen_width and 0 <= y < screen_height.
C13_MoveOnScreen ==
    \A i \in 1..Len(events) :
        events[i].kind = "Move" =>
            /\ 0 <= events[i].arg[1] /\ events[i].arg[1] < screen_width
            /\ 0 <= events[i].arg[2] /\ events[i].arg[2] < screen_height

\* The raw target: the position move_mouse_smooth computes before smoothing.
RawTarget(lm) == move_mouse_smooth(lm, << >>)

\* trunc(m * 0.7 + p * (1 - 0.7)), the value of the smoothing formula.
Blend(m, p) == Trunc(7 * m + 3 * p, 10)

\* A hand is about to be processed.
AtCall == pc = "hands" /\ pending # << >>

\* C14: the Move of a call goes to trunc(raw * 0.7 + previous * 0.3) on each axis
\* when a previous position is stored and to the raw target when none is, and
\* the call stores the position it moved to as the previous position.
C14_SmootherFormula ==
    AtCall =>
        \A lm \in Landmarks :
            LET r == loop_body(globals, lm, Head(pending), now)
                raw == RawTarget(lm)
                moved == r.events[1].arg
            IN  /\ r.events[1].kind = "Move"
                /\ moved = IF previous_position = << >> THEN raw
                           ELSE <<Blend(raw[1], previous_position[1]),
                                  Blend(raw[2], previous_position[2])>>
                /\ r.g.previous_position = moved

Abs(n) == IF n >= 0 THEN n ELSE -n

\* C15: with a raw target that is repeated, smoothing converges monotonically:
\* from any stored previous position, a call's Move is on each axis no farther
\* from the raw target than the previous position was.
C15_DistanceNeverIncreases ==
    (AtCall /\ previous_position # << >>) =>
        \A lm \in Landmarks :
            LET raw == RawTarget(lm)
                moved == loop_body(globals, lm, Head(pending), now).events[1].arg
            IN  \A k \in 1..2 :
                    Abs(moved[k] - raw[k]) <= Abs(previous_position[k] - raw[k])

\* The Scroll events among evs.
Scrolls(evs) == SelectSeq(evs, LAMBDA e : e.kind = "Scroll")

\* C16: whenever a hand is processed, whatever happened on earlier frames, the
\* call emits exactly one Scroll{+10} if index_tip.y < middle_tip.y, exactly one
\* Scroll{-10} if index_tip.y > middle_tip.y, and no Scroll if they are equal.
C16_ScrollBySign ==
    AtCall =>
        \A lm \in Landmarks :
            LET h == Head(pending)
                s == Scrolls(loop_body(globals, lm, h, now).events)
            IN  /\ lm.index[2] < lm.middle[2] =>
                        (Len(s) = 1 /\ s[1].hand = h /\ s[1].arg = <<10>>)
                /\ lm.index[2] > lm.middle[2] =>
                        (Len(s) = 1 /\ s[1].hand = h /\ s[1].arg = <<-10>>)
                /\ lm.index[2] = lm.middle[2] => s = << >>

\* C16, witness: the followed hand, seen on the previous frame too, has just
\* been processed and its call emitted a Scroll{-10}.
C16_ScrollOnLaterFrame ==
    /\ FollowedJustProcessed
    /\ status_last # "absent"
    /\ Len(Scrolls(events)) = 1
    /\ Scrolls(events)[1].arg = <<-10>>

\* A step of a frame that reports no hand: the read that delivers it, or the key
\* poll that ends it (no call has emitted anything since the read).
ZeroHandFrameStep ==
    \/ pc = "read" /\ pc' = "hands" /\ pending' = << >>
    \/ FrameDone /\ events = << >>

\* C17: a frame that reports zero hands emits no pointer event and leaves the
\* smoother position, the drag flag and the hover timer unchanged.
C17_ZeroHandFrameInert ==
    [][ZeroHandFrameStep =>
          /\ events' = << >>
          /\ UNCHANGED <<previous_position, dragging, hover_start_time>>]_vars

\* C17, witness: a frame without hands is ending while a position is stored, a
\* drag is in progress and the hover timer is running.
C17_ZeroHandFrameWithState ==
    /\ FrameDone
    /\ events = << >>
    /\ previous_position # << >>
    /\ dragging
    /\ hover_start_time # << >>

\* C18: a hand with fewer than 21 landmark points is rejected: its iteration
\* emits no event and changes no state, what it raises is a malformed-landmark
\* signal and not an out-of-range index error, and the frame loop carries on.
C18_ShortHandRejected ==
    /\ pc # "crashed"
    /\ AtCall =>
          \A lm \in Landmarks, n \in ShortCounts :
              LET r == loop_body_short(globals, lm, n, Head(pending), now)
              IN  /\ r.events = << >>
                  /\ r.g = globals
                  /\ r.raised # "IndexError"

\* C19: no frame emits more than one Click for the same hand: the pinch click
\* and the hover click never both fire in one hand's processing of a frame.
C19_AtMostOneClickPerHand ==
    \A h \in HandIds :
        Len(SelectSeq(events, LAMBDA e : e.hand = h /\ e.kind = "Click")) <= 1

Min(a, b) == IF a <= b THEN a ELSE b
Max(a, b) == IF a >= b THEN a ELSE b

\* C20: the smoother never overshoots: with raw target r and stored previous
\* position p, each coordinate of the Move lies between min(r, p) and max(r, p)
\* inclusive.
C20_NoOvershoot ==
    (AtCall /\ previous_position # << >>) =>
        \A lm \in Landmarks :
            LET raw == RawTarget(lm)
                moved == loop_body(globals, lm, Head(pending), now).events[1].arg
            IN  \A k \in 1..2 :
                    /\ Min(raw[k], previous_position[k]) <= moved[k]
                    /\ moved[k] <= Max(raw[k], previous_position[k])
====
